---- MODULE Spec2Model ----
(***************************************************************************)
(* Form 10E (Section 89(1)) relief calculator.                             *)
(*                                                                         *)
(* Three programs are modelled, selected by `variant`:                     *)
(*   "advanced"  form10e_relief_advanced.py  (compute_tax, compute_relief) *)
(*   "tenE"      tenE_relief.py              (tax_old_regime, compute_10e) *)
(*   "basic"     form10e_relief.py           (compute_tax, main)           *)
(*                                                                         *)
(* Money.  The programs use binary floats.  The model uses exact           *)
(* fixed-point amounts: one unit is 1/Sub of a paisa, U units are one      *)
(* rupee.  round(x, 2) and round(x, 0) are modelled as round-half-to-even  *)
(* on the exact decimal value (Python rounds the binary value half to      *)
(* even; the two agree except on decimal ties that a float cannot hold).   *)
(* Rates are kept in percent (0.05 -> 5), the 4% cess as 26/25.            *)
(***************************************************************************)
EXTENDS Integers, Sequences, FiniteSets, TLC

VARIABLES
    variant,    \* which program runs
    mode,       \* TenEInput.mode (tenE only)
    receipt,    \* receipt-year arguments: fy, regime, income, total
    receiptIn,  \* the receipt-year arguments as the caller passed them
    years,      \* the caller's list of year records (YearData / YearInput)
    yearsIn,    \* the year records as the caller passed them
    pc,         \* position inside compute_relief / compute_10e / main
    i,          \* index of the year record the loop is at
    past,       \* tenE: past_deltas, the YearCalc list being built
    cur,        \* current-year tax_wo, tax_w, delta
    relief,     \* the relief returned
    err,        \* "none", "ArrearsMismatch" or "UnsupportedYear"
    calls,      \* every invocation of the tax engine, in order
    tpc,        \* engine harness: "call" or "done"
    tkey,       \* engine harness: variant, regime, fy
    tinc,       \* engine harness: two taxable incomes, tinc[1] < tinc[2]
    tres        \* engine harness: the two results

vars == <<variant, mode, receipt, receiptIn, years, yearsIn, pc, i, past, cur,
          relief, err, calls, tpc, tkey, tinc, tres>>

flowVars == <<variant, mode, receipt, receiptIn, years, yearsIn, pc, i, past,
              cur, relief, err, calls>>

taxVars == <<tpc, tkey, tinc, tres>>

----------------------------------------------------------------------------
(* Bounds of the model *)

\* units per paisa: amounts are multiples of 1/Sub paisa
Sub == 5

\* number of year records a call carries
MaxYears == 2

\* the engine harness tries incomes within Delta units / rupees of a breakpoint
Delta == 1

\* the validation tries totals up to Spread units away from n whole amounts
Spread == 7

----------------------------------------------------------------------------
(* Fixed-point arithmetic *)

\* units per rupee
U == 100 * Sub

Max(a, b) == IF a >= b THEN a ELSE b

Min(a, b) == IF a <= b THEN a ELSE b

Abs(a) == IF a >= 0 THEN a ELSE -a

\* round(x, n) on an amount of x units, to a multiple of g units, ties to even
RoundHalfEven(x, g) ==
    LET q == x \div g
        r == x % g
    IN  IF 2 * r < g THEN q * g
        ELSE IF 2 * r > g THEN (q + 1) * g
        ELSE IF q % 2 = 0 THEN q * g ELSE (q + 1) * g

\* round(x, 2): to the paisa
Round2(x) == RoundHalfEven(x, Sub)

\* round(x, 0): to the rupee
Round0(x) == RoundHalfEven(x, U)

----------------------------------------------------------------------------
(* Tax engines *)

\* float("inf"), the bound of the last slab
INF == 2147483647

\* a slab bound in units
LimitU(limit) == IF limit = INF THEN INF ELSE limit * U

\* the tax before cess, exactly: w/100 + f/(100*U) rupees
ZeroTax == [w |-> 0, f |-> 0]

\* round(tax * 1.04, 0), in units
RoundCess(acc) ==
    LET n   == acc.w * 26
        q   == n \div 2500
        num == (n % 2500) * U + acc.f * 26
        den == 2500 * U
        whole == q + (num \div den)
        r   == num % den
    IN  IF 2 * r < den THEN whole * U
        ELSE IF 2 * r > den THEN (whole + 1) * U
        ELSE IF whole % 2 = 0 THEN whole * U ELSE (whole + 1) * U

\* the loop over the slabs: for limit, rate in slabs: ... if ti <= limit: break
RECURSIVE SlabWalk(_, _, _, _, _)
SlabWalk(ti, slabs, k, prev, acc) ==
    IF k > Len(slabs) THEN acc
    ELSE LET limit == LimitU(slabs[k][1])
             rate  == slabs[k][2]
             slab  == Max(0, Min(ti, limit) - prev)
             nacc  == [w |-> acc.w + (slab \div U) * rate,
                       f |-> acc.f + (slab % U) * rate]
         IN  IF ti <= limit THEN nacc
             ELSE SlabWalk(ti, slabs, k + 1, limit, nacc)

OLD_SLABS ==
    << <<250000, 0>>, <<500000, 5>>, <<1000000, 20>>, <<INF, 30>> >>

LEGACY_SLABS ==
    << <<300000, 0>>, <<600000, 5>>, <<900000, 10>>, <<1200000, 15>>,
       <<1500000, 20>>, <<INF, 30>> >>

\* the if-chain of compute_tax_new_2025: <<upper bound, offset, base, rate>>
FORMULA_2025 ==
    << <<400000, 0, 0, 0>>,
       <<800000, 0, 400000, 5>>,
       <<1200000, 20000, 800000, 10>>,
       <<1600000, 60000, 1200000, 15>>,
       <<2000000, 120000, 1600000, 20>>,
       <<2400000, 200000, 2000000, 25>>,
       <<INF, 300000, 2400000, 30>> >>

OLD_REBATE == 500000

LEGACY_REBATE == 700000

\* compute_tax_old with the 87A test `ti < 500000` instead of `ti <= 500000`
compute_tax_old_strict(ti) ==
    LET tax == SlabWalk(ti, OLD_SLABS, 1, 0, ZeroTax)
    IN  RoundCess(IF ti < OLD_REBATE * U THEN ZeroTax ELSE tax)

compute_tax_old(ti) ==
    LET tax == SlabWalk(ti, OLD_SLABS, 1, 0, ZeroTax)
    IN  RoundCess(IF ti <= OLD_REBATE * U THEN ZeroTax ELSE tax)

compute_tax_new_legacy(ti) ==
    LET tax == SlabWalk(ti, LEGACY_SLABS, 1, 0, ZeroTax)
    IN  RoundCess(IF ti <= LEGACY_REBATE * U THEN ZeroTax ELSE tax)

\* the first branch of the if-chain whose test `ti <= upper` holds
RECURSIVE FormulaRow(_, _, _)
FormulaRow(ti, rows, k) ==
    IF k = Len(rows) \/ ti <= LimitU(rows[k][1]) THEN rows[k]
    ELSE FormulaRow(ti, rows, k + 1)

\* tax = offset + (ti - base) * rate, then the cess
FormulaTax(ti, rows) ==
    LET row  == FormulaRow(ti, rows, 1)
        over == ti - row[3] * U
    IN  RoundCess([w |-> row[2] * 100 + (over \div U) * row[4],
                   f |-> (over % U) * row[4]])

\* compute_tax_new_2025 with the offset of the 12-16 lakh branch 50000, not 60000
compute_tax_new_2025_offset(ti) ==
    FormulaTax(ti, [FORMULA_2025 EXCEPT ![4][2] = 50000])

\* compute_tax_new_2025 with the rate of the 8-12 lakh branch 0.15, not 0.10
compute_tax_new_2025_rate(ti) ==
    FormulaTax(ti, [FORMULA_2025 EXCEPT ![3][4] = 15])

compute_tax_new_2025(ti) == FormulaTax(ti, FORMULA_2025)

\* the slabs the comment above compute_tax_new_2025 lists
NEW_2025_SLABS ==
    << <<400000, 0>>, <<800000, 5>>, <<1200000, 10>>, <<1600000, 15>>,
       <<2000000, 20>>, <<2400000, 25>>, <<INF, 30>> >>

\* the result of an engine call: a tax, or the ValueError of a missing table
Ok(t) == [ok |-> TRUE, tax |-> t]

Unsupported == [ok |-> FALSE, tax |-> 0]

\* advanced: compute_tax(ti, regime, fy)
compute_tax(ti, regime, fy) ==
    IF regime = "old" THEN Ok(compute_tax_old(ti))
    ELSE IF fy = "FY2025-26" THEN Ok(compute_tax_new_2025(ti))
    ELSE Ok(compute_tax_new_legacy(ti))

\* tenE: the years that have a slab table
SLABS_OLD ==
    [fy \in {"FY2019-20", "FY2020-21", "FY2021-22", "FY2022-23", "FY2023-24",
             "FY2024-25"} |-> OLD_SLABS]

\* tenE: the years that have a rebate rule, each <<threshold, enabled>>
REBATE_87A ==
    [fy \in {"FY2019-20", "FY2020-21", "FY2021-22", "FY2022-23", "FY2023-24",
             "FY2024-25"} |-> <<OLD_REBATE, TRUE>>]

\* tenE: tax_old_regime(ti, fy)
tax_old_regime(ti, fy) ==
    IF fy \notin DOMAIN SLABS_OLD THEN Unsupported
    ELSE LET tax == SlabWalk(ti, SLABS_OLD[fy], 1, 0, ZeroTax)
             rebated == fy \in DOMAIN REBATE_87A /\ ti <= REBATE_87A[fy][1] * U
         IN  Ok(RoundCess(IF rebated THEN ZeroTax ELSE tax))

\* basic: the one table
SLABS == OLD_SLABS

\* basic: compute_tax(taxable_income)
compute_tax_basic(taxable_income) ==
    LET tax == SlabWalk(taxable_income, SLABS, 1, 0, ZeroTax)
    IN  RoundCess(IF taxable_income <= OLD_REBATE * U THEN ZeroTax ELSE tax)

\* the engine of each program
Engine(v, ti, regime, fy) ==
    IF v = "advanced" THEN compute_tax(ti, regime, fy)
    ELSE IF v = "tenE" THEN tax_old_regime(ti, fy)
    ELSE Ok(compute_tax_basic(ti))

----------------------------------------------------------------------------
(* Inputs of the model *)

None == <<>>

Some(v) == <<v>>

\* FY2018-19 has no table anywhere; FY2023-24 has one in every program;
\* FY2025-26 has the formula in advanced and no table in tenE
FYs == {"FY2018-19", "FY2023-24", "FY2025-26"}

Regimes == {"old", "new"}

\* every bound of a slab or of a formula branch, and the rebate thresholds
Breakpoints ==
    ({OLD_SLABS[k][1] : k \in DOMAIN OLD_SLABS}
       \cup {LEGACY_SLABS[k][1] : k \in DOMAIN LEGACY_SLABS}
       \cup {FORMULA_2025[k][1] : k \in DOMAIN FORMULA_2025}
       \cup {OLD_REBATE, LEGACY_REBATE}) \ {INF}

\* incomes at, just below and just above every breakpoint, in units and rupees
TaxGrid ==
    {0} \cup {b * U + d * s : b \in Breakpoints, d \in (-Delta)..Delta, s \in {1, U}}

\* the (regime, fy) keys each engine is called with
TaxKeys ==
    {[variant |-> "advanced", regime |-> r, fy |-> fy] : r \in Regimes, fy \in FYs}
      \cup {[variant |-> "tenE", regime |-> "old", fy |-> fy] : fy \in FYs}
      \cup {[variant |-> "basic", regime |-> "old", fy |-> "FY2023-24"]}

NoCur == [tax_wo |-> 0, tax_w |-> 0, delta |-> 0]

NoReceipt == [fy |-> "FY2023-24", regime |-> "old", income |-> 0, total |-> 0]

\* the flow at rest, for the engine harness
FlowIdle ==
    /\ variant = "basic" /\ mode = "slab-mode"
    /\ receipt = NoReceipt /\ receiptIn = NoReceipt
    /\ years = <<>> /\ yearsIn = <<>>
    /\ pc = "idle" /\ i = 0 /\ past = <<>> /\ cur = NoCur
    /\ relief = 0 /\ err = "none" /\ calls = <<>>

\* the engine harness at rest, for the flow
TaxIdle ==
    /\ tpc = "idle"
    /\ tkey = [variant |-> "basic", regime |-> "old", fy |-> "FY2023-24"]
    /\ tinc = <<0, 0>>
    /\ tres = <<Unsupported, Unsupported>>

----------------------------------------------------------------------------
(* The engine harness: computeTax on two incomes under one (regime, fy) key *)

InitTax ==
    /\ FlowIdle
    /\ tpc = "call"
    /\ tkey \in TaxKeys
    /\ tinc \in {p \in TaxGrid \X TaxGrid : p[1] < p[2]}
    /\ tres = <<Unsupported, Unsupported>>

TaxCall ==
    /\ tpc = "call"
    /\ tres' = <<Engine(tkey.variant, tinc[1], tkey.regime, tkey.fy),
                 Engine(tkey.variant, tinc[2], tkey.regime, tkey.fy)>>
    /\ tpc' = "done"
    /\ UNCHANGED <<tkey, tinc>>
    /\ UNCHANGED flowVars

NextTax == TaxCall

SpecTax == InitTax /\ [][NextTax]_vars

----------------------------------------------------------------------------
(* computeRelief: compute_relief (advanced), compute_10e (tenE), main (basic) *)

RECURSIVE SumArrears(_)
SumArrears(ys) ==
    IF ys = <<>> THEN 0 ELSE Head(ys).arrears + SumArrears(Tail(ys))

\* the validation with only the mapped sum rounded: round(sum, 2) != total
ArrearsMatch_unrounded(total, ys) == total = Round2(SumArrears(ys))

\* the validation rounding to one decimal: round(x, 1)
ArrearsMatch_round1(total, ys) ==
    RoundHalfEven(total, 10 * Sub) = RoundHalfEven(SumArrears(ys), 10 * Sub)

\* not (round(total_arrears, 2) != mapped_total)
ArrearsMatch(total, ys) == Round2(total) = Round2(SumArrears(ys))

\* a tax value of a year: its amount, whether a table was missing, and
\* whether the engine was invoked for it
Manual(v) == [ok |-> TRUE, tax |-> v, engine |-> FALSE]

Computed(r) == [ok |-> r.ok, tax |-> r.tax, engine |-> TRUE]

\* compute_tax_for_year using the override in every mode
compute_tax_for_year_anymode(fy, taxable, m, manual_override) ==
    IF manual_override # None THEN Manual(manual_override[1])
    ELSE Computed(tax_old_regime(taxable, fy))

\* tenE: compute_tax_for_year(fy, taxable, mode, manual_override)
compute_tax_for_year(fy, taxable, m, manual_override) ==
    IF m = "manual-tax" /\ manual_override # None THEN Manual(manual_override[1])
    ELSE Computed(tax_old_regime(taxable, fy))

\* advanced: y.manual_tax if y.manual_tax is not None else compute_tax(...)
manual_or_compute_tax(manual, ti, regime, fy) ==
    IF manual # None THEN Manual(manual[1])
    ELSE Computed(compute_tax(ti, regime, fy))

YearTax(v, m, manual, ti, regime, fy) ==
    IF v = "advanced" THEN manual_or_compute_tax(manual, ti, regime, fy)
    ELSE IF v = "tenE" THEN compute_tax_for_year(fy, ti, m, manual)
    ELSE Computed(Ok(compute_tax_basic(ti)))

\* one entry of the log of engine invocations
Call(site, idx, which, ti, regime, fy) ==
    [site |-> site, idx |-> idx, which |-> which, ti |-> ti,
     regime |-> regime, fy |-> fy]

LogIf(r, c) == IF r.engine THEN <<c>> ELSE <<>>

\* the loop body storing the taxes and also folding the arrears into the income
FillYear_fold(y, wo, w) ==
    [y EXCEPT !.tax_wo = wo, !.tax_w = w, !.base_income = y.base_income + y.arrears]

\* advanced, basic: y.tax_wo = ...; y.tax_w = ...
FillYear(y, wo, w) == [y EXCEPT !.tax_wo = wo, !.tax_w = w]

\* tenE: YearCalc(fy=..., tax_without_arrears=..., tax_with_arrears=..., delta=...)
YearCalc(fy, wo, w) ==
    [fy |-> fy, tax_without_arrears |-> wo, tax_with_arrears |-> w, delta |-> w - wo]

\* the current year taking the overrides of the first year record
CurrentManual_first(which) ==
    IF years = <<>> THEN None
    ELSE IF which = "wo" THEN years[1].manual_tax_wo ELSE years[1].manual_tax_w

\* the override passed for the current year: None
CurrentManual(which) == None

\* the per-year deltas summed by the relief formula
PastDeltas ==
    IF variant = "tenE" THEN [k \in DOMAIN past |-> past[k].delta]
    ELSE [k \in DOMAIN years |-> years[k].tax_w - years[k].tax_wo]

RECURSIVE SumSeq(_)
SumSeq(s) == IF s = <<>> THEN 0 ELSE Head(s) + SumSeq(Tail(s))

\* the relief without the floor at zero
ReliefAmount_nofloor(past_sum, current_delta) == Round0(past_sum - current_delta)

\* max(0.0, round(sum(past_deltas) - current_delta, 0))
ReliefAmount(past_sum, current_delta) == Max(0, Round0(past_sum - current_delta))

Fail(e) == /\ pc' = "failed" /\ err' = e

\* the validation placed after the first engine call
Validate_late ==
    /\ pc = "validate"
    /\ calls' = IF years = <<>> THEN calls
                ELSE Append(calls, Call("year", 1, "wo", years[1].base_income,
                                        years[1].regime, years[1].fy))
    /\ IF ArrearsMatch(receipt.total, years)
       THEN pc' = "years" /\ i' = 1 /\ err' = err
       ELSE Fail("ArrearsMismatch") /\ i' = i
    /\ UNCHANGED <<variant, mode, receipt, receiptIn, years, yearsIn, past, cur,
                   relief>>
    /\ UNCHANGED taxVars

\* the arrears validation, the first statement of the call
Validate ==
    /\ pc = "validate"
    /\ IF ArrearsMatch(receipt.total, years)
       THEN pc' = "years" /\ i' = 1 /\ err' = err
       ELSE Fail("ArrearsMismatch") /\ i' = i
    /\ UNCHANGED <<variant, mode, receipt, receiptIn, years, yearsIn, past, cur,
                   relief, calls>>
    /\ UNCHANGED taxVars

\* one iteration of the loop over the year records
YearStep ==
    /\ pc = "years" /\ i <= Len(years)
    /\ LET y   == years[i]
           wo  == YearTax(variant, mode, y.manual_tax_wo, y.base_income,
                          y.regime, y.fy)
           w   == YearTax(variant, mode, y.manual_tax_w,
                          y.base_income + y.arrears, y.regime, y.fy)
           cwo == LogIf(wo, Call("year", i, "wo", y.base_income, y.regime, y.fy))
           cw  == LogIf(w, Call("year", i, "w", y.base_income + y.arrears,
                                y.regime, y.fy))
       IN  IF ~wo.ok
           THEN /\ Fail("UnsupportedYear")
                /\ calls' = calls \o cwo
                /\ UNCHANGED <<years, past, i>>
           ELSE IF ~w.ok
           THEN /\ Fail("UnsupportedYear")
                /\ calls' = calls \o cwo \o cw
                /\ UNCHANGED <<years, past, i>>
           ELSE /\ calls' = calls \o cwo \o cw
                /\ IF variant = "tenE"
                   THEN /\ past' = Append(past, YearCalc(y.fy, wo.tax, w.tax))
                        /\ years' = years
                   ELSE /\ years' = [years EXCEPT ![i] = FillYear(y, wo.tax, w.tax)]
                        /\ past' = past
                /\ i' = i + 1
                /\ UNCHANGED <<pc, err>>
    /\ UNCHANGED <<variant, mode, receipt, receiptIn, yearsIn, cur, relief>>
    /\ UNCHANGED taxVars

\* the two taxes of the year of receipt and their difference
CurrentYear ==
    /\ pc = "years" /\ i > Len(years)
    /\ LET wo  == YearTax(variant, mode, CurrentManual("wo"), receipt.income,
                          receipt.regime, receipt.fy)
           w   == YearTax(variant, mode, CurrentManual("w"),
                          receipt.income + receipt.total, receipt.regime,
                          receipt.fy)
           cwo == LogIf(wo, Call("current", 0, "wo", receipt.income,
                                 receipt.regime, receipt.fy))
           cw  == LogIf(w, Call("current", 0, "w",
                                receipt.income + receipt.total, receipt.regime,
                                receipt.fy))
       IN  IF ~wo.ok
           THEN Fail("UnsupportedYear") /\ calls' = calls \o cwo /\ cur' = cur
           ELSE IF ~w.ok
           THEN Fail("UnsupportedYear") /\ calls' = calls \o cwo \o cw /\ cur' = cur
           ELSE /\ calls' = calls \o cwo \o cw
                /\ cur' = [tax_wo |-> wo.tax, tax_w |-> w.tax,
                           delta |-> w.tax - wo.tax]
                /\ pc' = "relief"
                /\ err' = err
    /\ UNCHANGED <<variant, mode, receipt, receiptIn, years, yearsIn, i, past,
                   relief>>
    /\ UNCHANGED taxVars

\* the relief, and the return
Relief ==
    /\ pc = "relief"
    /\ relief' = ReliefAmount(SumSeq(PastDeltas), cur.delta)
    /\ pc' = "done"
    /\ UNCHANGED <<variant, mode, receipt, receiptIn, years, yearsIn, i, past,
                   cur, err, calls>>
    /\ UNCHANGED taxVars

----------------------------------------------------------------------------
(* The calls the model makes *)

\* the amount of arrears mapped to a year, and the income of that year
Arrears == 40000 * U

Base == 480000 * U

\* the income of the year of receipt
Income == 900000 * U

ManualWo == {None, Some(10000 * U)}

\* below the override without arrears, and half a rupee above it
ManualW == {None, Some(0), Some(10000 * U + U \div 2)}

YearFYs == {"FY2018-19", "FY2023-24"}

ReceiptFYs == {"FY2023-24", "FY2025-26"}

Modes == {"manual-tax", "slab-mode"}

RegimesOf(v) == IF v = "advanced" THEN Regimes ELSE {"old"}

ModesOf(v) == IF v = "tenE" THEN Modes ELSE {"slab-mode"}

ManualOf(v, S) == IF v = "basic" THEN {None} ELSE S

\* the year records of the calls that exercise the relief
ReliefRecords(v) ==
    [fy : YearFYs, base_income : {Base}, arrears : {Arrears},
     regime : RegimesOf(v), manual_tax_wo : ManualOf(v, ManualWo),
     manual_tax_w : ManualOf(v, ManualW), tax_wo : {0}, tax_w : {0}]

\* the year records of the calls that exercise the validation: arrears that
\* are whole, and a fraction of a paisa above
ValidationRecords ==
    [fy : {"FY2023-24"}, base_income : {Base},
     arrears : {Arrears, Arrears + 1, Arrears + Sub \div 2 + 1},
     regime : {"old"}, manual_tax_wo : {None}, manual_tax_w : {None},
     tax_wo : {0}, tax_w : {0}]

Lists(S) == UNION {[1..n -> S] : n \in 0..MaxYears}

Start ==
    /\ receiptIn = receipt /\ yearsIn = years
    /\ pc = "validate" /\ i = 0 /\ past = <<>> /\ cur = NoCur
    /\ relief = 0 /\ err = "none" /\ calls = <<>>
    /\ TaxIdle

\* calls whose arrears add up, or are a rupee short
InitRelief ==
    /\ variant \in {"advanced", "tenE", "basic"}
    /\ mode \in ModesOf(variant)
    /\ years \in Lists(ReliefRecords(variant))
    /\ receipt \in [fy : ReceiptFYs, regime : RegimesOf(variant), income : {Income},
                    total : {SumArrears(years), SumArrears(years) + U}]
    /\ Start

\* calls whose total is within Spread units of the mapped sum
InitValidation ==
    /\ variant \in {"advanced", "tenE", "basic"}
    /\ mode = "slab-mode"
    /\ years \in Lists(ValidationRecords)
    /\ receipt \in [fy : {"FY2023-24"}, regime : {"old"}, income : {Income},
                    total : {SumArrears(years) + d : d \in (-Spread)..Spread}
                              \cap Nat]
    /\ Start

Init == InitRelief \/ InitValidation

Next == Validate \/ YearStep \/ CurrentYear \/ Relief

Spec == Init /\ [][Next]_vars

----------------------------------------------------------------------------
(* What the claims speak of *)

\* the call has returned a result
Returned == pc = "done"

\* the validation has run
Validated == pc \in {"years", "relief", "done", "failed"}

\* the call is over, with a result or an error
Over == pc \in {"done", "failed"}

\* the year records whose two taxes have been computed
Processed == IF Validated THEN 1..(i - 1) ELSE {}

\* the tax figures of year k that enter its delta
UsedWo(k) == IF variant = "tenE" THEN past[k].tax_without_arrears ELSE years[k].tax_wo

UsedW(k) == IF variant = "tenE" THEN past[k].tax_with_arrears ELSE years[k].tax_w

YearDelta(k) == UsedW(k) - UsedWo(k)

\* the sum of the deltas of the first n year records
RECURSIVE SumDeltas(_)
SumDeltas(n) == IF n = 0 THEN 0 ELSE YearDelta(n) + SumDeltas(n - 1)

\* sum of the per-year deltas minus the current-year delta
RawRelief == SumDeltas(Len(yearsIn)) - cur.delta

\* |sum(arrears) - totalArrears|, in units; 0.01 is Sub units
ArrearsGap == Abs(SumArrears(yearsIn) - receiptIn.total)

\* the engine was invoked for value `which` of year record k
Consulted(k, which) ==
    \E n \in DOMAIN calls :
        calls[n].site = "year" /\ calls[n].idx = k /\ calls[n].which = which

\* the override of value `which` of year record k, and the income it is for
OverrideOf(k, which) ==
    IF which = "wo" THEN yearsIn[k].manual_tax_wo ELSE yearsIn[k].manual_tax_w

TaxableOf(k, which) ==
    IF which = "wo" THEN yearsIn[k].base_income
    ELSE yearsIn[k].base_income + yearsIn[k].arrears

UsedOf(k, which) == IF which = "wo" THEN UsedWo(k) ELSE UsedW(k)

EngineOf(k, which) ==
    Engine(variant, TaxableOf(k, which), yearsIn[k].regime, yearsIn[k].fy)

\* the rebate threshold of a key, in rupees: <<>> when the key has none
RebateThreshold(key) ==
    IF key.variant = "advanced"
    THEN IF key.regime = "old" THEN Some(OLD_REBATE)
         ELSE IF key.fy = "FY2025-26" THEN None ELSE Some(LEGACY_REBATE)
    ELSE IF key.variant = "tenE"
    THEN IF key.fy \in DOMAIN SLABS_OLD /\ key.fy \in DOMAIN REBATE_87A
         THEN Some(REBATE_87A[key.fy][1]) ELSE None
    ELSE Some(OLD_REBATE)

\* the keys for which the source names a table or a formula
Registered(key) ==
    IF key.variant = "advanced"
    THEN key.regime = "old" \/ key.fy \in {"FY2023-24", "FY2024-25", "FY2025-26"}
    ELSE IF key.variant = "tenE" THEN key.fy \in DOMAIN SLABS_OLD
    ELSE TRUE

----------------------------------------------------------------------------
(* The claims *)

\* C1: whenever the call returns, the relief is max(0, round(sum of the
\* per-year deltas - current-year delta)), and so it is never negative,
\* also when overrides make a per-year delta negative.
ReliefIsFlooredRoundedNet ==
    Returned => /\ relief = Max(0, Round0(RawRelief))
                /\ relief >= 0

\* C1 witness: a returned call with a negative per-year delta and a negative net
ReliefFlooredCase ==
    /\ Returned
    /\ \E k \in DOMAIN yearsIn : YearDelta(k) < 0
    /\ RawRelief < 0
    /\ relief = 0

\* C2: once the validation has run, a gap between the sum of the arrears and
\* totalArrears of more than 0.01 has made the call fail with ArrearsMismatch.
MismatchBeyondTolerance ==
    (Validated /\ ArrearsGap > Sub) => err = "ArrearsMismatch"

\* C2 witness: a call with year records rejected for a gap above 0.01
MismatchBeyondToleranceCase ==
    /\ err = "ArrearsMismatch"
    /\ ArrearsGap > Sub
    /\ Len(yearsIn) > 0

\* C3: for a key with a rebate threshold, the tax is 0 for an income up to the
\* threshold and positive for an income above it.
RebateZeroAtOrBelowThreshold ==
    tpc = "done" =>
        \A j \in 1..2 :
            (RebateThreshold(tkey) # None /\ tres[j].ok) =>
                LET th == RebateThreshold(tkey)[1] * U
                IN  /\ tinc[j] <= th => tres[j].tax = 0
                    /\ tinc[j] > th => tres[j].tax > 0

\* C3 witness: the old regime at 500000 and at 500001
RebateThresholdCase ==
    /\ tpc = "done"
    /\ tkey.variant = "advanced" /\ tkey.regime = "old"
    /\ tinc = <<OLD_REBATE * U, (OLD_REBATE + 1) * U>>
    /\ tres[1].tax = 0 /\ tres[2].tax > 0

\* C4: under one key, a lower income never pays more tax than a higher one.
TaxMonotone ==
    (tpc = "done" /\ tres[1].ok /\ tres[2].ok) => tres[1].tax <= tres[2].tax

\* C4 witness: the FY2025-26 formula on the two sides of the 1200000 breakpoint
TaxMonotoneCase ==
    /\ tpc = "done"
    /\ tkey.variant = "advanced" /\ tkey.regime = "new" /\ tkey.fy = "FY2025-26"
    /\ tinc = <<1200000 * U, 1200000 * U + 1>>
    /\ tres[1].tax <= tres[2].tax

\* C5: computeTax fails with UnsupportedYear for every (regime, fiscalYear)
\* for which no table or formula is registered.
UnsupportedYearRaised ==
    (tpc = "done" /\ ~Registered(tkey)) => (~tres[1].ok /\ ~tres[2].ok)

\* C6 as stated: for every processed year record and each of its two values, an
\* override that is present is the value used and the engine is not consulted,
\* whatever the mode; without an override the value is the engine's.
OverrideUsedWhateverMode ==
    \A k \in Processed : \A which \in {"wo", "w"} :
        IF OverrideOf(k, which) # None
        THEN /\ UsedOf(k, which) = OverrideOf(k, which)[1]
             /\ ~Consulted(k, which)
        ELSE /\ UsedOf(k, which) = EngineOf(k, which).tax
             /\ Consulted(k, which)

\* the override that counts: in tenE only under mode "manual-tax"
EffectiveOverride(k, which) ==
    IF variant = "tenE" /\ mode # "manual-tax" THEN None ELSE OverrideOf(k, which)

\* C6 amended: an override that is present (and, in tenE, given under mode
\* "manual-tax") is the value used and the engine is not consulted for it, so
\* an unregistered year cannot fail it; otherwise the value is the engine's,
\* and a failure of a year record is the failure of such a value.
OverrideUsedInManualMode ==
    /\ \A k \in Processed : \A which \in {"wo", "w"} :
           IF EffectiveOverride(k, which) # None
           THEN /\ UsedOf(k, which) = OverrideOf(k, which)[1]
                /\ ~Consulted(k, which)
           ELSE /\ EngineOf(k, which).ok
                /\ UsedOf(k, which) = EngineOf(k, which).tax
                /\ Consulted(k, which)
    /\ (err = "UnsupportedYear" /\ i <= Len(yearsIn)) =>
           LET c == calls[Len(calls)]
           IN  /\ c.site = "year" /\ c.idx = i
               /\ EffectiveOverride(i, c.which) = None
               /\ ~EngineOf(i, c.which).ok
               /\ \A which \in {"wo", "w"} :
                      EffectiveOverride(i, which) # None => ~Consulted(i, which)

\* C6 witness: tenE under "manual-tax" returns although a year record with
\* both overrides names a year without a table
OverrideUsedCase ==
    /\ Returned /\ variant = "tenE" /\ mode = "manual-tax"
    /\ \E k \in DOMAIN yearsIn :
           /\ yearsIn[k].fy \notin DOMAIN SLABS_OLD
           /\ yearsIn[k].manual_tax_wo # None /\ yearsIn[k].manual_tax_w # None
           /\ UsedWo(k) = yearsIn[k].manual_tax_wo[1]
           /\ UsedW(k) = yearsIn[k].manual_tax_w[1]

\* C7: a call that failed with ArrearsMismatch has not invoked the engine and
\* has left every year record as it was.
MismatchBeforeAnyTax ==
    err = "ArrearsMismatch" =>
        /\ calls = <<>>
        /\ years = yearsIn
        /\ past = <<>>
        /\ cur = NoCur

\* C7 witness: a call with year records that failed with ArrearsMismatch
MismatchBeforeAnyTaxCase ==
    /\ err = "ArrearsMismatch" /\ pc = "failed"
    /\ Len(yearsIn) > 0

\* C8 as stated: the validation passes whenever the gap is at most 0.01.
PassesWithinTolerance ==
    (Validated /\ ArrearsGap <= Sub) => err # "ArrearsMismatch"

\* C8 amended: the validation passes exactly when the sum and the total round
\* to the same paisa; it does so whenever they are equal, and between
\* whole-paisa amounts only when they are equal.
PassesOnSamePaisa ==
    Validated =>
        LET sum   == SumArrears(yearsIn)
            total == receiptIn.total
        IN  /\ (err # "ArrearsMismatch") <=> (Round2(sum) = Round2(total))
            /\ sum = total => err # "ArrearsMismatch"
            /\ (sum % Sub = 0 /\ total % Sub = 0 /\ sum # total)
                   => err = "ArrearsMismatch"

\* C8 witness: a sum and a total that are fractions of a paisa, equal, accepted
PassesOnSamePaisaCase ==
    /\ Validated /\ err # "ArrearsMismatch"
    /\ Len(yearsIn) > 0
    /\ SumArrears(yearsIn) = receiptIn.total
    /\ receiptIn.total % Sub # 0

\* C9 as stated: after compute_relief / compute_10e is over, every field of
\* every year record and of the receipt context is as before the call.
NoFieldChanged ==
    (Over /\ variant # "basic") => (years = yearsIn /\ receipt = receiptIn)

\* the fields of a year record that are inputs
InputFields(y) ==
    [fy |-> y.fy, base_income |-> y.base_income, arrears |-> y.arrears,
     regime |-> y.regime, manual_tax_wo |-> y.manual_tax_wo,
     manual_tax_w |-> y.manual_tax_w]

\* C9 amended: a call never changes the receipt context nor an input field of
\* a year record; tenE changes no field at all, and a call that failed with
\* ArrearsMismatch changed none; advanced (and basic) write the computed
\* tax_wo and tax_w of each processed year record, and nothing else.
OnlyTaxFieldsWritten ==
    /\ receipt = receiptIn
    /\ Len(years) = Len(yearsIn)
    /\ \A k \in DOMAIN years : InputFields(years[k]) = InputFields(yearsIn[k])
    /\ variant = "tenE" => years = yearsIn
    /\ \A k \in DOMAIN years :
           k \notin Processed => years[k] = yearsIn[k]
    /\ variant # "tenE" =>
           \A k \in Processed :
               /\ years[k].tax_wo = UsedWo(k)
               /\ years[k].tax_w = UsedW(k)

\* C9 witness: advanced has returned and a year record carries a computed tax
OnlyTaxFieldsWrittenCase ==
    /\ Returned /\ variant = "advanced"
    /\ \E k \in DOMAIN years :
           /\ years[k].tax_w # yearsIn[k].tax_w
           /\ InputFields(years[k]) = InputFields(yearsIn[k])

\* C10: the current-year delta is the engine's tax on income + totalArrears
\* minus the engine's tax on income, for the receipt year's regime and year,
\* whatever the overrides of the year records and the mode.
CurrentDeltaFromEngine ==
    pc \in {"relief", "done"} =>
        LET wo == Engine(variant, receiptIn.income, receiptIn.regime, receiptIn.fy)
            w  == Engine(variant, receiptIn.income + receiptIn.total,
                         receiptIn.regime, receiptIn.fy)
            n  == Len(calls)
        IN  /\ wo.ok /\ w.ok
            /\ cur.tax_wo = wo.tax /\ cur.tax_w = w.tax
            /\ cur.delta = w.tax - wo.tax
            /\ n >= 2
            /\ calls[n - 1] = Call("current", 0, "wo", receiptIn.income,
                                   receiptIn.regime, receiptIn.fy)
            /\ calls[n] = Call("current", 0, "w",
                               receiptIn.income + receiptIn.total,
                               receiptIn.regime, receiptIn.fy)

\* C10 witness: a returned call all of whose year records carry both
\* overrides, which were used, and whose current-year delta is not zero
CurrentDeltaFromEngineCase ==
    /\ Returned /\ Len(yearsIn) > 0
    /\ variant = "tenE" => mode = "manual-tax"
    /\ \A k \in DOMAIN yearsIn :
           /\ yearsIn[k].manual_tax_wo # None /\ yearsIn[k].manual_tax_w # None
           /\ ~Consulted(k, "wo") /\ ~Consulted(k, "w")
    /\ cur.delta > 0

\* the harness has called the FY2025-26 new-regime formula
Formula2025Called ==
    /\ tpc = "done"
    /\ tkey.variant = "advanced" /\ tkey.regime = "new" /\ tkey.fy = "FY2025-26"

\* the progressive slab walk over the FY2025-26 table, no rebate, cess, rounding
SlabWalk2025(ti) == RoundCess(SlabWalk(ti, NEW_2025_SLABS, 1, 0, ZeroTax))

\* C11: the FY2025-26 formula returns the tax of the progressive slab walk
\* over its table (no rebate, 4% cess, rounding); the offset of every branch is
\* the tax the walk has accumulated at the branch's base, so that adjacent
\* branches agree at every breakpoint.
FormulaIsSlabWalk ==
    Formula2025Called =>
        /\ \A j \in 1..2 :
               tres[j].ok /\ tres[j].tax = SlabWalk2025(tinc[j])
        /\ \A k \in 2..Len(FORMULA_2025) :
               LET row   == FORMULA_2025[k]
                   below == FORMULA_2025[k - 1]
                   atBp  == SlabWalk(row[3] * U, NEW_2025_SLABS, 1, 0, ZeroTax)
               IN  /\ row[3] = below[1]
                   /\ atBp = [w |-> row[2] * 100, f |-> 0]
                   /\ below[2] * 100 + (below[1] - below[3]) * below[4]
                          = row[2] * 100
                   /\ compute_tax_new_2025(row[3] * U)
                          = RoundCess([w |-> row[2] * 100, f |-> 0])

\* C11 witness: the formula at 800000, where it returns 20800, and a rupee above
FormulaIsSlabWalkCase ==
    /\ Formula2025Called
    /\ tinc = <<800000 * U, 800001 * U>>
    /\ tres[1].tax = 20800 * U
    /\ tres[1].tax = SlabWalk2025(tinc[1])
    /\ tres[2].tax = SlabWalk2025(tinc[2])

====
